---- MODULE Spec2Model ----
(***************************************************************************)
(* A model of erigon-db's typed accessors (src/src/erigon/mod.rs) over the *)
(* key-value store: the historical-state lookups, the chain helpers, the   *)
(* body/code/storage readers and the write helpers; and of the codecs of   *)
(* src/src/erigon/models.rs: the composite keys, the account decoder, the  *)
(* block header and the address list.  A store is a record of tables; a    *)
(* table is a function from the keys it holds to their values, and a       *)
(* duplicate-sorted table maps a bucket key to a function from sub-keys to *)
(* values.  Byte strings are sequences of the numbers 0..255.              *)
(***************************************************************************)
EXTENDS Integers, Sequences, FiniteSets, TLC

\* ------------------------------------------------------------------ bounds
\* Block numbers of the model are 0..MaxBlock.
MaxBlock == 2
\* A change-set table of the model holds at most this many entries.
MaxCsEntries == 2
\* A u64 of the model is U64Bits wide: the values 0..2^U64Bits - 1.
U64Bits == 3
\* A stored body's tx_amount is 0..MaxTxAmount.
MaxTxAmount == 3
\* The read-write transactions make at most MaxWrites writes in all.
MaxWrites == 2

\* ------------------------------------------------------- values and options
Address == {1, 2}
BlockNumbers == 0..MaxBlock
\* A history bitmap (RoaringTreemap) is a finite set of block numbers.
Bitmaps == SUBSET BlockNumbers
\* H256::default(), the all-zero hash.
ZERO_HASH == 0
\* Hashes of the model: the zero hash and two others.
CodeHashes == {ZERO_HASH, 1, 2}
Incarnations == {0, 1}

\* Rust's Option and Result, and a panic (an unwrap of None, an overflow).
None == [tag |-> "None"]
Some(v) == [tag |-> "Some", val |-> v]
Err(m) == [tag |-> "Err", msg |-> m]
Panic == [tag |-> "Panic"]

\* The table with no entry.
EmptyTable == [k \in {} |-> 0]

\* The subsets of U with at most k elements.
RECURSIVE SubsetsUpTo(_, _)
SubsetsUpTo(U, k) ==
    IF k = 0 THEN {{}}
    ELSE LET smaller == SubsetsUpTo(U, k - 1)
         IN  smaller \cup {s \cup {x} : s \in smaller, x \in U}

\* One store lookup, as the reads log records it.
Lookup(table, key) == [table |-> table, key |-> key]

\* ------------------------------------------------------------ the engine
\* Keys are tuples of fixed-width big-endian components, so the engine's
\* byte order on encoded keys is the lexicographic order on the tuples.
RECURSIVE LexLE(_, _)
LexLE(a, b) ==
    IF a = <<>> THEN TRUE
    ELSE IF b = <<>> THEN FALSE
    ELSE IF a[1] < b[1] THEN TRUE
    ELSE IF a[1] > b[1] THEN FALSE
    ELSE LexLE(Tail(a), Tail(b))

\* The least key of a non-empty set of keys.
MinKey(keys) == CHOOSE k \in keys : \A o \in keys : LexLE(k, o)

\* get: the value under key, if any.
Get(table, key) == IF key \in DOMAIN table THEN Some(table[key]) ELSE None

\* Cursor seek: the first entry with key >= the given key, as (key, value).
Seek(table, key) ==
    LET cands == {k \in DOMAIN table : LexLE(key, k)}
    IN  IF cands = {} THEN None
        ELSE LET k == MinKey(cands) IN Some(<<k, table[k]>>)

\* Cursor seek_dup: within the bucket, the first duplicate entry with
\* sub-key >= the given sub-key, as (sub_key, value).
SeekDup(table, bucket, sub) ==
    IF bucket \notin DOMAIN table THEN None
    ELSE LET dups == table[bucket]
             cands == {s \in DOMAIN dups : s >= sub}
         IN  IF cands = {} THEN None
             ELSE LET s == CHOOSE x \in cands : \A o \in cands : x <= o
                  IN  Some(<<s, dups[s]>>)

\* ---------------------------------------------------------- the bitmap
\* RoaringTreemap::rank: the number of elements <= x.
Rank(map, x) == Cardinality({e \in map : e <= x})

\* RoaringTreemap::select: the i-th smallest element (0-indexed), if any.
Select(map, i) ==
    IF i >= Cardinality(map) THEN None
    ELSE Some(CHOOSE e \in map : Cardinality({y \in map : y < e}) = i)

\* u64::saturating_sub.
SaturatingSub(n, k) == IF n >= k THEN n - k ELSE 0

\* find: rank(n - 1) then select(rank).unwrap(); the unwrap of None panics.
find(map, n) ==
    LET rank == Rank(map, SaturatingSub(n, 1))
        sel == Select(map, rank)
    IN  IF sel.tag = "None" THEN Panic ELSE sel

\* ------------------------------------------------------------- the state
VARIABLES
    db,     \* the committed store: a record of tables
    op,     \* the call in progress or just completed, with its arguments
    res,    \* its result
    reads,  \* the store lookups it made, in order
    pc,     \* the caller's position: "idle", a step of the call, or "done"
    loc,    \* the call's local variables between its steps
    tx,     \* the read-only transaction's snapshot of the store, or NoTx
    wtx,    \* the read-write transaction's view of the store, or NoTx
    nwrites, \* the number of writes made so far
    raced   \* whether a commit changed the store between the call's steps

vars == <<db, op, res, reads, pc, loc, tx, wtx, nwrites, raced>>

\* What a call on the committed store leaves alone.
txnvars == <<loc, tx, wtx, nwrites, raced>>

\* No transaction is open.
NoTx == [open |-> FALSE]
NoLocals == [step |-> 0]

EmptyStore ==
    [AccountHistory |-> EmptyTable, AccountChangeSet |-> EmptyTable,
     PlainCodeHash |-> EmptyTable, StorageHistory |-> EmptyTable,
     StorageChangeSet |-> EmptyTable, HeaderNumber |-> EmptyTable,
     CanonicalHeader |-> EmptyTable, LastHeader |-> EmptyTable,
     BlockBody |-> EmptyTable, Code |-> EmptyTable, Storage |-> EmptyTable,
     LastBlock |-> EmptyTable, IncarnationMap |-> EmptyTable,
     BlockTransactionLookup |-> EmptyTable, Header |-> EmptyTable]

\* No call is in progress: the caller is between two calls.
NoOp == [name |-> "none"]

\* The caller takes the result of the call and is free to call again.
Return ==
    /\ pc = "done"
    /\ pc' = "idle"
    /\ op' = NoOp
    /\ res' = None
    /\ reads' = <<>>
    /\ loc' = NoLocals
    /\ raced' = FALSE
    /\ UNCHANGED <<db, tx, wtx, nwrites>>

\* The state every specification starts the caller and the transactions in.
Idle ==
    /\ op = NoOp
    /\ res = None
    /\ reads = <<>>
    /\ pc = "idle"
    /\ loc = NoLocals
    /\ tx = NoTx
    /\ wtx = NoTx
    /\ nwrites = 0
    /\ raced = FALSE

\* A call made on the committed store completes in one step.
Completes(call, r) ==
    /\ pc = "idle"
    /\ pc' = "done"
    /\ op' = call
    /\ res' = r.res
    /\ reads' = r.reads
    /\ UNCHANGED <<db, txnvars>>

\* --------------------------------------------------- the history lookups
\* read_codehash: PlainCodeHash under (address, incarnation).
read_codehash(view, adr, inc) == Get(view.PlainCodeHash, <<adr, inc>>)

\* The backfill test with the zero-codehash half dropped.
NeedsBackfillAnyCodehash(acct) == acct.incarnation > 0

\* Whether read_account_hist looks the codehash of acct up: a non-zero
\* incarnation with a zero codehash.
NeedsBackfill(acct) == acct.incarnation > 0 /\ acct.codehash = ZERO_HASH

\* The account returned once the codehash lookup ch is made: a missing
\* code hash is an error.
Backfilled(acct, ch) ==
    IF ch.tag = "None" THEN Err("No value")
    ELSE Some([acct EXCEPT !.codehash = ch.val])

\* The account read_account_hist returns for the change-set entry acct.
Backfill(view, adr, acct) ==
    IF NeedsBackfill(acct)
    THEN [res |-> Backfilled(acct, read_codehash(view, adr, acct.incarnation)),
          reads |-> <<Lookup("PlainCodeHash", <<adr, acct.incarnation>>)>>]
    ELSE [res |-> Some(acct), reads |-> <<>>]

\* read_account_hist after the index seek: the bitmap search and the
\* change-set seek at the block it picks.
AccountAt(view, adr, block, bitmap) ==
    LET t == find(bitmap, block)
    IN  IF t.tag = "Panic" THEN [res |-> Panic, reads |-> <<>>]
        ELSE LET c == SeekDup(view.AccountChangeSet, <<t.val>>, adr)
                 rd == <<Lookup("AccountChangeSet", <<t.val, adr>>)>>
             IN  IF c.tag = "Some" /\ c.val[1] = adr
                 THEN LET b == Backfill(view, adr, c.val[2])
                      IN  [res |-> b.res, reads |-> rd \o b.reads]
                 ELSE [res |-> None, reads |-> rd]

\* read_account_hist(adr, block).
read_account_hist(view, adr, block) ==
    LET h == Seek(view.AccountHistory, <<adr, block>>)
        rd == <<Lookup("AccountHistory", <<adr, block>>)>>
    IN  IF h.tag = "None" THEN [res |-> Err("No value"), reads |-> rd]
        ELSE LET r == AccountAt(view, adr, block, h.val[2])
             IN  [res |-> r.res, reads |-> rd \o r.reads]

\* ------------------------------------------- stores of the account history
AccountHistKeys == Address \X BlockNumbers

\* The index holds at most one entry, under any key, with any bitmap.
AccountHistories ==
    UNION {[K -> Bitmaps] : K \in SubsetsUpTo(AccountHistKeys, 1)}

\* The account a change-set holds at (block, address): the nonce and the
\* balance tell the entries apart, the incarnation and codehash are the
\* store's.
CsAccount(b, a, inc, ch) ==
    [nonce |-> b + 1, incarnation |-> inc, balance |-> a, codehash |-> ch]

AccountChangeSets ==
    {[b \in {<<e[1]>> : e \in E} |->
        [a \in {e[2] : e \in {x \in E : x[1] = b[1]}} |-> CsAccount(b[1], a, f[1], f[2])]] :
     E \in SubsetsUpTo(BlockNumbers \X Address, MaxCsEntries),
     f \in Incarnations \X {ZERO_HASH, 1}}

\* PlainCodeHash holds at most one entry, for incarnation 1.
PlainCodeHashes ==
    {EmptyTable} \cup {[k \in {<<a, 1>>} |-> 2] : a \in Address}

InitAccountHist ==
    /\ \E h \in AccountHistories, c \in AccountChangeSets, p \in PlainCodeHashes :
          db = [EmptyStore EXCEPT !.AccountHistory = h, !.AccountChangeSet = c,
                                  !.PlainCodeHash = p]
    /\ Idle

ReadAccountHist(adr, block) ==
    Completes([name |-> "read_account_hist", adr |-> adr, block |-> block],
              read_account_hist(db, adr, block))

NextAccountHist ==
    \/ \E adr \in Address, block \in BlockNumbers : ReadAccountHist(adr, block)
    \/ Return

SpecAccountHist == InitAccountHist /\ [][NextAccountHist]_vars

\* ------------------------------------------------- account history: claims
\* The index entry the seek of the last read_account_hist found.
FoundIndexEntry == Seek(db.AccountHistory, <<op.adr, op.block>>)

\* The least element of bitmap that is >= n (the bitmap has one).
LeastAtOrAfter(bitmap, n) ==
    CHOOSE e \in bitmap : e >= n /\ \A o \in bitmap : o >= n => e <= o

\* Whether the account change-set holds an entry for adr at block b.
HasSnapshot(b, adr) ==
    <<b>> \in DOMAIN db.AccountChangeSet /\ adr \in DOMAIN db.AccountChangeSet[<<b>>]

\* C1: when the index entry found for (A, N) holds a bitmap with an element
\* >= N and the change-set holds an entry for A at each bitmap element,
\* read_account_hist(A, N) returns the snapshot stored at the smallest
\* bitmap element >= N (with the codehash backfill of C4), N = 0 and
\* bitmaps holding block 0 included.
C1_SmallestChangePoint ==
    op.name = "read_account_hist" =>
        LET h == FoundIndexEntry
        IN  (/\ h.tag = "Some"
             /\ \E e \in h.val[2] : e >= op.block
             /\ \A e \in h.val[2] : HasSnapshot(e, op.adr))
            => LET target == LeastAtOrAfter(h.val[2], op.block)
               IN  res = Backfill(db, op.adr, db.AccountChangeSet[<<target>>][op.adr]).res

\* C2: an index entry that belongs to another address is not used: the
\* lookup is a not-found for A and no change-set block is picked from the
\* other address's bitmap.
C2_OnlyOwnIndexEntry ==
    op.name = "read_account_hist" =>
        LET h == FoundIndexEntry
        IN  (h.tag = "Some" /\ h.val[1][1] # op.adr)
            => /\ res.tag \in {"None", "Err"}
               /\ \A i \in DOMAIN reads : reads[i].table # "AccountChangeSet"

\* C3: an exhausted index yields an empty result and not an error, and so
\* does a change-set seek that finds no entry or another address's entry.
C3_MissingIsEmptyResult ==
    op.name = "read_account_hist" =>
        /\ FoundIndexEntry.tag = "None" => res = None
        /\ \A i \in DOMAIN reads :
              (reads[i].table = "AccountChangeSet"
               /\ ~HasSnapshot(reads[i].key[1], op.adr)) => res = None

\* The account change-set entry the last read_account_hist resolved, if
\* any: the entry for its address in the bucket its change-set seek named.
ResolvedEntries ==
    {reads[i].key : i \in {j \in DOMAIN reads :
        /\ reads[j].table = "AccountChangeSet"
        /\ HasSnapshot(reads[j].key[1], reads[j].key[2])}}

CodeHashLookups == {i \in DOMAIN reads : reads[i].table = "PlainCodeHash"}

\* C4: a resolved account with a non-zero incarnation and a zero codehash is
\* returned with the codehash PlainCodeHash holds under (address,
\* incarnation) and its other fields unchanged; any other resolved account
\* is returned as stored, and no code-hash lookup is made for it.
C4_CodehashBackfill ==
    op.name = "read_account_hist" =>
        \A k \in ResolvedEntries :
            LET acct == db.AccountChangeSet[<<k[1]>>][k[2]]
                key == <<op.adr, acct.incarnation>>
            IN  IF acct.incarnation # 0 /\ acct.codehash = ZERO_HASH
                THEN /\ \E i \in CodeHashLookups : reads[i].key = key
                     /\ key \in DOMAIN db.PlainCodeHash =>
                           /\ res.tag = "Some"
                           /\ res.val = [acct EXCEPT !.codehash = db.PlainCodeHash[key]]
                     /\ key \notin DOMAIN db.PlainCodeHash => res.tag # "Some"
                ELSE /\ res.tag = "Some"
                     /\ res.val = acct
                     /\ CodeHashLookups = {}

\* C4's case: a stored account with incarnation 1 and a zero codehash came
\* back with the codehash of PlainCodeHash.
C4_Witness ==
    /\ op.name = "read_account_hist"
    /\ \E k \in ResolvedEntries :
          /\ db.AccountChangeSet[<<k[1]>>][k[2]].incarnation = 1
          /\ db.AccountChangeSet[<<k[1]>>][k[2]].codehash = ZERO_HASH
    /\ res.tag = "Some"
    /\ res.val.codehash = 2

\* ------------------------------------------------------ storage history
\* read_storage_hist(adr, inc, slot, block).
read_storage_hist(view, adr, inc, slot, block) ==
    LET h == Seek(view.StorageHistory, <<adr, slot, block>>)
        rd == <<Lookup("StorageHistory", <<adr, slot, block>>)>>
    IN  IF h.tag = "None" THEN [res |-> Err("No value"), reads |-> rd]
        ELSE LET t == find(h.val[2], block)
             IN  IF t.tag = "Panic" THEN [res |-> Panic, reads |-> rd]
                 ELSE LET c == SeekDup(view.StorageChangeSet, <<t.val, adr, inc>>, slot)
                          rc == <<Lookup("StorageChangeSet", <<t.val, adr, inc, slot>>)>>
                      IN  [res |-> IF c.tag = "Some" /\ c.val[1] = slot
                                   THEN Some(c.val[2]) ELSE None,
                           reads |-> rd \o rc]

Slots == {1, 2}
StorageIncarnations == {1, 2}
StorageHistKeys == Address \X Slots \X BlockNumbers

\* The index holds at most one entry, under any key, with any bitmap.
StorageHistories ==
    UNION {[K -> Bitmaps] : K \in SubsetsUpTo(StorageHistKeys, 1)}

\* The value a storage change-set holds at (block, address, incarnation,
\* slot): one value per entry, so a result names the entry it came from.
CsValue(b, a, i, s) == 1 + s + 2 * (i + 2 * (a + 2 * b))

StorageChangeSets ==
    {[k \in {<<e[1], e[2], e[3]>> : e \in E} |->
        [s \in {e[4] : e \in {x \in E : <<x[1], x[2], x[3]>> = k}} |->
            CsValue(k[1], k[2], k[3], s)]] :
     E \in SubsetsUpTo(BlockNumbers \X Address \X StorageIncarnations \X Slots,
                        MaxCsEntries)}

InitStorageHist ==
    /\ \E h \in StorageHistories, c \in StorageChangeSets :
          db = [EmptyStore EXCEPT !.StorageHistory = h, !.StorageChangeSet = c]
    /\ Idle

ReadStorageHist(adr, inc, slot, block) ==
    Completes([name |-> "read_storage_hist", adr |-> adr, inc |-> inc,
               slot |-> slot, block |-> block],
              read_storage_hist(db, adr, inc, slot, block))

NextStorageHist ==
    \/ \E adr \in Address, inc \in StorageIncarnations, slot \in Slots, block \in BlockNumbers :
        ReadStorageHist(adr, inc, slot, block)
    \/ Return

SpecStorageHist == InitStorageHist /\ [][NextStorageHist]_vars

\* C5: read_storage_hist(A, inc, slot, N) seeks the index at (A, slot, N),
\* takes the smallest bitmap element >= N as the target, seeks the bucket
\* (target, (A, inc)) for slot and returns the stored value iff the sub-key
\* found is slot, else an empty result; it makes no code-hash lookup.
C5_StorageHistResolution ==
    op.name = "read_storage_hist" =>
        LET h == Seek(db.StorageHistory, <<op.adr, op.slot, op.block>>)
        IN  /\ \A i \in DOMAIN reads : reads[i].table # "PlainCodeHash"
            /\ (h.tag = "Some" /\ \E e \in h.val[2] : e >= op.block) =>
                  LET target == LeastAtOrAfter(h.val[2], op.block)
                      c == SeekDup(db.StorageChangeSet, <<target, op.adr, op.inc>>, op.slot)
                  IN  res = IF c.tag = "Some" /\ c.val[1] = op.slot
                            THEN Some(c.val[2]) ELSE None

\* ------------------------------------------------------ the chain helpers
\* A Result<bool> that is Ok.
Ok(v) == [tag |-> "Ok", val |-> v]

\* Hashes of headers: the zero hash and two others.
HeaderHashes == {ZERO_HASH, 1, 2}

\* read_head_header_hash: the LastHeader table holds one key.
read_head_header_hash(view) == Get(view.LastHeader, <<"LastHeader">>)

\* read_header_number: HeaderNumber under the hash.
read_header_number(view, hash) == Get(view.HeaderNumber, <<hash>>)

\* read_canonical_hash: CanonicalHeader under the block number.
read_canonical_hash(view, num) == Get(view.CanonicalHeader, <<num>>)

\* The canonical test with the non-zero half dropped.
IsCanonicalAllowZero(canon, hash) == canon = hash

\* The test is_canonical_hash ends with.
IsCanonical(canon, hash) == canon # ZERO_HASH /\ canon = hash

\* is_canonical_hash(hash): a missing number or canonical hash is an error.
is_canonical_hash(view, hash) ==
    LET num == read_header_number(view, hash)
        rn == <<Lookup("HeaderNumber", <<hash>>)>>
    IN  IF num.tag = "None" THEN [res |-> Err("No value"), reads |-> rn]
        ELSE LET canon == read_canonical_hash(view, num.val)
                 rc == <<Lookup("CanonicalHeader", <<num.val>>)>>
             IN  [res |-> IF canon.tag = "None" THEN Err("No value")
                          ELSE Ok(IsCanonical(canon.val, hash)),
                  reads |-> rn \o rc]

\* read_head_block_number: a missing head hash is an error, and the result
\* is what read_header_number returns for the head hash.
read_head_block_number(view) ==
    LET hash == read_head_header_hash(view)
        rh == <<Lookup("LastHeader", <<"LastHeader">>)>>
    IN  IF hash.tag = "None" THEN [res |-> Err("No value"), reads |-> rh]
        ELSE [res |-> read_header_number(view, hash.val),
              reads |-> rh \o <<Lookup("HeaderNumber", <<hash.val>>)>>]

\* Every table from a subset of the keys to the values.
Tables(keys, values) == UNION {[K -> values] : K \in SUBSET keys}

InitChain ==
    /\ \E hn \in Tables({<<h>> : h \in HeaderHashes}, BlockNumbers),
          ch \in Tables({<<n>> : n \in BlockNumbers}, HeaderHashes),
          lh \in Tables({<<"LastHeader">>}, HeaderHashes) :
          db = [EmptyStore EXCEPT !.HeaderNumber = hn, !.CanonicalHeader = ch,
                                  !.LastHeader = lh]
    /\ Idle

IsCanonicalHash(hash) ==
    Completes([name |-> "is_canonical_hash", hash |-> hash], is_canonical_hash(db, hash))

ReadHeadBlockNumber ==
    Completes([name |-> "read_head_block_number"], read_head_block_number(db))

NextChain ==
    \/ \E hash \in HeaderHashes : IsCanonicalHash(hash)
    \/ ReadHeadBlockNumber
    \/ Return

SpecChain == InitChain /\ [][NextChain]_vars

\* Whether the store holds a number for the hash and a canonical hash for
\* that number.
HasCanonical(hash) ==
    /\ <<hash>> \in DOMAIN db.HeaderNumber
    /\ <<db.HeaderNumber[<<hash>>]>> \in DOMAIN db.CanonicalHeader

CanonicalOf(hash) == db.CanonicalHeader[<<db.HeaderNumber[<<hash>>]>>]

\* C6: is_canonical_hash(hash) is true iff the canonical hash stored for
\* the hash's block number is non-zero and equals the hash; for another
\* hash at that number it is false, and for the zero hash it is false even
\* when the zero hash is stored as canonical.
C6_CanonicalIffNonZeroEqual ==
    op.name = "is_canonical_hash" =>
        /\ res = Ok(TRUE) <=>
              (/\ HasCanonical(op.hash)
               /\ CanonicalOf(op.hash) # ZERO_HASH
               /\ CanonicalOf(op.hash) = op.hash)
        /\ (HasCanonical(op.hash) /\ CanonicalOf(op.hash) # op.hash) => res = Ok(FALSE)
        /\ (HasCanonical(op.hash) /\ op.hash = ZERO_HASH) => res = Ok(FALSE)
        /\ op.hash = ZERO_HASH => res # Ok(TRUE)

\* C6's case: the zero hash is stored as the canonical hash of its own
\* number, and the call on it returned false.
C6_Witness ==
    /\ op.name = "is_canonical_hash"
    /\ op.hash = ZERO_HASH
    /\ HasCanonical(ZERO_HASH)
    /\ CanonicalOf(ZERO_HASH) = ZERO_HASH
    /\ res = Ok(FALSE)

\* C9: with a head header hash stored and no header number stored for it,
\* read_head_block_number returns an error and not an empty result.
C9_MissingLinkageIsError ==
    op.name = "read_head_block_number" =>
        ((/\ <<"LastHeader">> \in DOMAIN db.LastHeader
          /\ <<db.LastHeader[<<"LastHeader">>]>> \notin DOMAIN db.HeaderNumber)
         => res.tag = "Err")

\* ------------------------------------------------------- the stored body
\* u64::MAX at the model's width.
U64Max == 2 ^ U64Bits - 1

BodyKeys == {<<0, 1>>, <<1, 2>>}

Bodies ==
    [base_tx_id : 0..U64Max, tx_amount : 0..MaxTxAmount, uncles : {<<>>, <<"uncle">>}]

\* read_body_for_storage(key).  `base_tx_id += 1` comes first: at u64::MAX
\* it panics in a build with overflow checks and wraps to 0 in one without.
\* Then tx_amount.checked_sub(2), whose failure is an error naming the key.
read_body_for_storage(view, key, overflow_checks) ==
    LET got == Get(view.BlockBody, key)
        rd == <<Lookup("BlockBody", key)>>
    IN  IF got.tag = "None" THEN [res |-> None, reads |-> rd]
        ELSE IF got.val.base_tx_id = U64Max /\ overflow_checks
        THEN [res |-> Panic, reads |-> rd]
        ELSE IF got.val.tx_amount < 2
        THEN [res |-> Err(<<"Block body has too few txs", got.val.tx_amount, key>>),
              reads |-> rd]
        ELSE [res |-> Some([base_tx_id |-> (got.val.base_tx_id + 1) % (U64Max + 1),
                            tx_amount |-> got.val.tx_amount - 2,
                            uncles |-> got.val.uncles]),
              reads |-> rd]

InitBody ==
    /\ \E b \in Tables(BodyKeys, Bodies) : db = [EmptyStore EXCEPT !.BlockBody = b]
    /\ Idle

ReadBodyForStorage(key, overflow_checks) ==
    Completes([name |-> "read_body_for_storage", key |-> key,
               overflow_checks |-> overflow_checks],
              read_body_for_storage(db, key, overflow_checks))

NextBody ==
    \/ \E key \in BodyKeys, overflow_checks \in BOOLEAN :
          ReadBodyForStorage(key, overflow_checks)
    \/ Return

SpecBody == InitBody /\ [][NextBody]_vars

\* C7: for a stored body with tx_amount = t and base_tx_id = b,
\* read_body_for_storage returns tx_amount = t - 2 and base_tx_id = b + 1
\* with the uncles unchanged when t >= 2, for every b of the width, and an
\* error when t < 2; an absent key gives an empty result.
C7_BodyAdjustment ==
    op.name = "read_body_for_storage" =>
        IF op.key \in DOMAIN db.BlockBody
        THEN LET body == db.BlockBody[op.key]
             IN  IF body.tx_amount >= 2
                 THEN res = Some([base_tx_id |-> body.base_tx_id + 1,
                                  tx_amount |-> body.tx_amount - 2,
                                  uncles |-> body.uncles])
                 ELSE res.tag = "Err"
        ELSE res = None

\* ------------------------------------------------------------- the code
\* keccak256 of the empty string, as a hash of the model.
EMPTY_HASH == 3

CodeKeys == {<<1>>, <<2>>, <<EMPTY_HASH>>}
Bytecodes == {<<>>, <<96>>, <<96, 0>>}

\* read_code(codehash): for EMPTY_HASH it returns Ok(Default::default()),
\* the default of Option<Bytecode>, which is None, with no lookup.
read_code(view, codehash) ==
    IF codehash = EMPTY_HASH THEN [res |-> None, reads |-> <<>>]
    ELSE [res |-> Get(view.Code, <<codehash>>),
          reads |-> <<Lookup("Code", <<codehash>>)>>]

InitCode ==
    /\ \E c \in Tables(CodeKeys, Bytecodes) : db = [EmptyStore EXCEPT !.Code = c]
    /\ Idle

ReadCode(codehash) ==
    Completes([name |-> "read_code", codehash |-> codehash], read_code(db, codehash))

NextCode ==
    \/ \E codehash \in {ZERO_HASH, 1, 2, EMPTY_HASH} : ReadCode(codehash)
    \/ Return

SpecCode == InitCode /\ [][NextCode]_vars

\* C8: read_code of the empty-code hash returns a present, zero-length
\* bytecode and makes no store lookup; of any other hash it returns what
\* the Code table holds under it, or an empty result.
C8_EmptyCodeShortCircuit ==
    op.name = "read_code" =>
        IF op.codehash = EMPTY_HASH
        THEN res = Some(<<>>) /\ reads = <<>>
        ELSE res = Get(db.Code, <<op.codehash>>)

\* ------------------------------------------- transactions and their steps
\* A read that takes the latest committed store, not the transaction's.
LatestView == db

\* The store a call reads: that of the transaction it was made on (self.0).
TxView == tx.snap

OpenTx(store) == [open |-> TRUE, snap |-> store]

\* The store the transactions start from.
BaseStore ==
    [EmptyStore EXCEPT
        !.AccountHistory = (<<1, 2>> :> {1, 2}),
        !.AccountChangeSet = (<<1>> :> (1 :> CsAccount(1, 1, 1, ZERO_HASH))),
        !.PlainCodeHash = (<<1, 1>> :> 2),
        !.StorageHistory = (<<1, 1, 2>> :> {1, 2}),
        !.StorageChangeSet = (<<1, 1, 1>> :> (1 :> CsValue(1, 1, 1, 1))),
        !.HeaderNumber = (<<1>> :> 1),
        !.CanonicalHeader = (<<1>> :> 1),
        !.LastHeader = (<<"LastHeader">> :> 1)]

\* The writes a read-write transaction chooses from: a put under a key of a
\* single-valued table, or of a sub-key a duplicate-sorted bucket lacks.
WriteMenu ==
    <<[table |-> "AccountHistory", dup |-> FALSE, key |-> <<1, 2>>, val |-> {2}],
      [table |-> "PlainCodeHash", dup |-> FALSE, key |-> <<1, 1>>, val |-> 1],
      [table |-> "HeaderNumber", dup |-> FALSE, key |-> <<1>>, val |-> 2],
      [table |-> "CanonicalHeader", dup |-> FALSE, key |-> <<1>>, val |-> 2],
      [table |-> "AccountChangeSet", dup |-> TRUE, key |-> <<2>>, sub |-> 1,
       val |-> CsAccount(2, 1, 0, 1)],
      [table |-> "StorageChangeSet", dup |-> TRUE, key |-> <<2, 1, 1>>, sub |-> 1,
       val |-> CsValue(2, 1, 1, 1)]>>

\* The table with key mapped to val, its other entries kept.
PutKey(table, key, val) ==
    [k \in DOMAIN table \cup {key} |-> IF k = key THEN val ELSE table[k]]

\* write: the put of w into the store.
Put(store, w) ==
    LET table == store[w.table]
    IN  [store EXCEPT ![w.table] =
            IF w.dup
            THEN PutKey(table, w.key,
                        PutKey(IF w.key \in DOMAIN table THEN table[w.key] ELSE EmptyTable,
                               w.sub, w.val))
            ELSE PutKey(table, w.key, w.val)]

\* The calls the reader makes.
TxnCalls ==
    {[name |-> "read_account_hist", adr |-> 1, block |-> b] : b \in {1, 2}}
    \cup {[name |-> "read_storage_hist", adr |-> 1, inc |-> 1, slot |-> 1, block |-> b] :
            b \in {1, 2}}
    \cup {[name |-> "is_canonical_hash", hash |-> h] : h \in {1, 2}}
    \cup {[name |-> "read_head_block_number"]}

\* The first store read of each call.
FirstStep(name) ==
    CASE name = "read_account_hist" -> "hist_seek"
      [] name = "read_storage_hist" -> "hist_seek"
      [] name = "is_canonical_hash" -> "header_number"
      [] name = "read_head_block_number" -> "head_hash"

\* The positions between two store reads of a call.
MidSteps == {"cs_seek", "codehash", "canonical_hash", "linked_number"}

InitTxn ==
    /\ db = BaseStore
    /\ Idle

\* Erigon::begin: a read-only transaction on the store as committed.
Begin ==
    /\ pc = "idle"
    /\ ~tx.open
    /\ tx' = OpenTx(db)
    /\ UNCHANGED <<db, op, res, reads, pc, loc, wtx, nwrites, raced>>

\* The read-only transaction is dropped.
End ==
    /\ pc = "idle"
    /\ tx.open
    /\ tx' = NoTx
    /\ UNCHANGED <<db, op, res, reads, pc, loc, wtx, nwrites, raced>>

\* Erigon::begin_rw: the one read-write transaction.
BeginRw ==
    /\ ~wtx.open
    /\ nwrites < MaxWrites
    /\ wtx' = OpenTx(db)
    /\ UNCHANGED <<db, op, res, reads, pc, loc, tx, nwrites, raced>>

\* Erigon::write in the read-write transaction.
Write(w) ==
    /\ wtx.open
    /\ nwrites < MaxWrites
    /\ w.dup => ~(w.key \in DOMAIN wtx.snap[w.table]
                  /\ w.sub \in DOMAIN wtx.snap[w.table][w.key])
    /\ wtx' = OpenTx(Put(wtx.snap, w))
    /\ nwrites' = nwrites + 1
    /\ UNCHANGED <<db, op, res, reads, pc, loc, tx, raced>>

\* The read-write transaction commits: its store becomes the committed one.
Commit ==
    /\ wtx.open
    /\ db' = wtx.snap
    /\ wtx' = NoTx
    /\ raced' = (raced \/ (pc \in MidSteps /\ wtx.snap # db))
    /\ UNCHANGED <<op, res, reads, pc, loc, tx, nwrites>>

\* The reader calls a multi-step read on its transaction.
Call(call) ==
    /\ pc = "idle"
    /\ tx.open
    /\ op' = call
    /\ pc' = FirstStep(call.name)
    /\ UNCHANGED <<db, res, reads, loc, tx, wtx, nwrites, raced>>

\* The call ends with result r after the lookup rd.
Finish(r, rd) ==
    /\ res' = r
    /\ reads' = reads \o rd
    /\ pc' = "done"
    /\ loc' = NoLocals
    /\ UNCHANGED <<db, op, tx, wtx, nwrites, raced>>

\* The call goes on to step next with locals l after the lookup rd.
Goto(next, l, rd) ==
    /\ pc' = next
    /\ loc' = l
    /\ reads' = reads \o rd
    /\ UNCHANGED <<db, op, res, tx, wtx, nwrites, raced>>

\* read_account_hist: the index seek and the bitmap search.
AccountHistSeek ==
    /\ pc = "hist_seek"
    /\ op.name = "read_account_hist"
    /\ LET h == Seek(TxView.AccountHistory, <<op.adr, op.block>>)
           rd == <<Lookup("AccountHistory", <<op.adr, op.block>>)>>
       IN  IF h.tag = "None" THEN Finish(Err("No value"), rd)
           ELSE LET t == find(h.val[2], op.block)
                IN  IF t.tag = "Panic" THEN Finish(Panic, rd)
                    ELSE Goto("cs_seek", [step |-> 1, cs_block |-> t.val], rd)

\* read_account_hist: the change-set seek.
AccountChangeSetSeek ==
    /\ pc = "cs_seek"
    /\ op.name = "read_account_hist"
    /\ LET c == SeekDup(TxView.AccountChangeSet, <<loc.cs_block>>, op.adr)
           rd == <<Lookup("AccountChangeSet", <<loc.cs_block, op.adr>>)>>
       IN  IF c.tag = "Some" /\ c.val[1] = op.adr
           THEN IF NeedsBackfill(c.val[2])
                THEN Goto("codehash", [step |-> 2, acct |-> c.val[2]], rd)
                ELSE Finish(Some(c.val[2]), rd)
           ELSE Finish(None, rd)

\* read_account_hist: the codehash lookup.
AccountCodehash ==
    /\ pc = "codehash"
    /\ Finish(Backfilled(loc.acct, read_codehash(TxView, op.adr, loc.acct.incarnation)),
              <<Lookup("PlainCodeHash", <<op.adr, loc.acct.incarnation>>)>>)

\* read_storage_hist: the index seek and the bitmap search.
StorageHistSeek ==
    /\ pc = "hist_seek"
    /\ op.name = "read_storage_hist"
    /\ LET h == Seek(TxView.StorageHistory, <<op.adr, op.slot, op.block>>)
           rd == <<Lookup("StorageHistory", <<op.adr, op.slot, op.block>>)>>
       IN  IF h.tag = "None" THEN Finish(Err("No value"), rd)
           ELSE LET t == find(h.val[2], op.block)
                IN  IF t.tag = "Panic" THEN Finish(Panic, rd)
                    ELSE Goto("cs_seek", [step |-> 1, cs_block |-> t.val], rd)

\* read_storage_hist: the change-set seek.
StorageChangeSetSeek ==
    /\ pc = "cs_seek"
    /\ op.name = "read_storage_hist"
    /\ LET c == SeekDup(TxView.StorageChangeSet, <<loc.cs_block, op.adr, op.inc>>, op.slot)
           rd == <<Lookup("StorageChangeSet", <<loc.cs_block, op.adr, op.inc, op.slot>>)>>
       IN  Finish(IF c.tag = "Some" /\ c.val[1] = op.slot THEN Some(c.val[2]) ELSE None, rd)

\* is_canonical_hash: read_header_number.
CanonicalHeaderNumber ==
    /\ pc = "header_number"
    /\ LET num == read_header_number(TxView, op.hash)
           rd == <<Lookup("HeaderNumber", <<op.hash>>)>>
       IN  IF num.tag = "None" THEN Finish(Err("No value"), rd)
           ELSE Goto("canonical_hash", [step |-> 1, num |-> num.val], rd)

\* is_canonical_hash: read_canonical_hash and the test.
CanonicalHash ==
    /\ pc = "canonical_hash"
    /\ LET canon == read_canonical_hash(TxView, loc.num)
       IN  Finish(IF canon.tag = "None" THEN Err("No value")
                  ELSE Ok(IsCanonical(canon.val, op.hash)),
                  <<Lookup("CanonicalHeader", <<loc.num>>)>>)

\* read_head_block_number: read_head_header_hash.
HeadHash ==
    /\ pc = "head_hash"
    /\ LET hash == read_head_header_hash(TxView)
           rd == <<Lookup("LastHeader", <<"LastHeader">>)>>
       IN  IF hash.tag = "None" THEN Finish(Err("No value"), rd)
           ELSE Goto("linked_number", [step |-> 1, hash |-> hash.val], rd)

\* read_head_block_number: read_header_number of the head hash.
HeadNumber ==
    /\ pc = "linked_number"
    /\ Finish(read_header_number(TxView, loc.hash), <<Lookup("HeaderNumber", <<loc.hash>>)>>)

NextTxn ==
    \/ Begin
    \/ End
    \/ BeginRw
    \/ \E i \in DOMAIN WriteMenu : Write(WriteMenu[i])
    \/ Commit
    \/ \E call \in TxnCalls : Call(call)
    \/ AccountHistSeek
    \/ AccountChangeSetSeek
    \/ AccountCodehash
    \/ StorageHistSeek
    \/ StorageChangeSetSeek
    \/ CanonicalHeaderNumber
    \/ CanonicalHash
    \/ HeadHash
    \/ HeadNumber
    \/ Return

SpecTxn == InitTxn /\ [][NextTxn]_vars

\* The call made in one piece on a store.
Atomic(store, call) ==
    CASE call.name = "read_account_hist" -> read_account_hist(store, call.adr, call.block)
      [] call.name = "read_storage_hist" ->
            read_storage_hist(store, call.adr, call.inc, call.slot, call.block)
      [] call.name = "is_canonical_hash" -> is_canonical_hash(store, call.hash)
      [] call.name = "read_head_block_number" -> read_head_block_number(store)

\* C10: a multi-step read makes all its store reads in the transaction it
\* was called on, so whatever commits between its steps, its result (and
\* its lookups) are those of the whole call made at once on the
\* transaction's snapshot.
C10_OneSnapshot ==
    (pc = "done" /\ tx.open) =>
        /\ res = Atomic(tx.snap, op).res
        /\ reads = Atomic(tx.snap, op).reads

\* C10's case: a commit changed the store between two steps of the call,
\* and the call's result is not what the committed store now gives.
C10_Witness ==
    /\ pc = "done"
    /\ tx.open
    /\ raced
    /\ res # Atomic(db, op).res

\* ---------------------------------------------------- the current storage
\* The sub-key test with the comparison dropped: any entry found is taken.
AnySlot(k, key) == TRUE

\* The test read_storage puts to the sub-key the seek found.
SameSlot(k, key) == k = key

\* read_storage(adr, inc, key): seek_dup in the bucket (adr, inc) at key,
\* and the value only of an entry whose sub-key is key.
read_storage(view, adr, inc, key) ==
    LET kv == SeekDup(view.Storage, <<adr, inc>>, key)
    IN  [res |-> IF kv.tag = "Some" /\ SameSlot(kv.val[1], key)
                 THEN Some(kv.val[2]) ELSE None,
         reads |-> <<Lookup("Storage", <<adr, inc, key>>)>>]

\* The value the Storage table holds at (address, incarnation, slot): one
\* value per entry.
StorageValue(a, i, s) == 1 + s + 2 * (i + 2 * a)

\* The Storage table with any entries of the model's buckets and slots.
Storages ==
    {[k \in {<<e[1], e[2]>> : e \in E} |->
        [s \in {e[3] : e \in {x \in E : <<x[1], x[2]>> = k}} |->
            StorageValue(k[1], k[2], s)]] :
     E \in SUBSET (Address \X StorageIncarnations \X Slots)}

InitStorage ==
    /\ \E t \in Storages : db = [EmptyStore EXCEPT !.Storage = t]
    /\ Idle

ReadStorage(adr, inc, key) ==
    Completes([name |-> "read_storage", adr |-> adr, inc |-> inc, key |-> key],
              read_storage(db, adr, inc, key))

NextStorage ==
    \/ \E adr \in Address, inc \in StorageIncarnations, key \in Slots :
          ReadStorage(adr, inc, key)
    \/ Return

SpecStorage == InitStorage /\ [][NextStorage]_vars

\* Whether the bucket (adr, inc) of the Storage table holds the sub-key slot.
HoldsSlot(adr, inc, slot) ==
    /\ <<adr, inc>> \in DOMAIN db.Storage
    /\ slot \in DOMAIN db.Storage[<<adr, inc>>]

\* C17: read_storage(A, inc, slot) returns the stored value iff the bucket
\* (A, inc) holds an entry whose sub-key is slot exactly; when the first
\* entry >= slot has a greater sub-key, or the bucket has none, the result
\* is empty, never the value of another slot.
C17_ExactSlotOnly ==
    op.name = "read_storage" =>
        res = IF HoldsSlot(op.adr, op.inc, op.key)
              THEN Some(db.Storage[<<op.adr, op.inc>>][op.key])
              ELSE None

\* C17's case: the bucket lacks the slot asked for but holds a greater one,
\* which the seek finds, and the result is empty.
C17_Witness ==
    /\ op.name = "read_storage"
    /\ ~HoldsSlot(op.adr, op.inc, op.key)
    /\ \E s \in Slots : s > op.key /\ HoldsSlot(op.adr, op.inc, s)
    /\ res = None

\* C18: the history lookups never abort: whatever the store holds and
\* whatever is asked, read_account_hist and read_storage_hist end with a
\* value, an empty result or an error, and the bitmap search does not panic
\* when the bitmap found has no element >= N.
C18_HistoryNeverAborts ==
    op.name \in {"read_account_hist", "read_storage_hist"} => res.tag # "Panic"

\* ------------------------------------------------- the address-list codec
\* Address::len_bytes().
ADDRESS_LENGTH == 20
\* Address lists of the model hold at most MaxAddrs addresses.
MaxAddrs == 2
\* Buffers handed to the decoders are at most MaxBufLen bytes long.
MaxBufLen == 41

\* A byte string of n bytes starting at byte value seed.
Bytes(n, seed) == [i \in 1..n |-> (seed + i) % 256]

\* The addresses of the model, as the 20 bytes an Address is.
AddressValues == {Bytes(ADDRESS_LENGTH, seed) : seed \in {0, 1, 100}}

\* Address::encode: the address's own bytes.
EncodeAddress(addr) == addr

\* Address::decode: a slice of the address width is the address.
DecodeAddress(b) ==
    IF Len(b) # ADDRESS_LENGTH THEN Err("InvalidLength") ELSE Ok(b)

\* Vec<Address>::encode: the loop extending v by each address's encoding.
RECURSIVE EncodeAddressesFrom(_, _)
EncodeAddressesFrom(list, v) ==
    IF list = <<>> THEN v
    ELSE EncodeAddressesFrom(Tail(list), v \o EncodeAddress(Head(list)))

EncodeAddresses(list) == EncodeAddressesFrom(list, <<>>)

\* The length test of the decoder with the test dropped.
AnyLength(n) == TRUE

\* The length test Vec<Address>::decode starts with.
DivisibleLength(n) == n % ADDRESS_LENGTH = 0

\* Vec<Address>::decode: the loop over i in 0..b.len() / ADDRESS_LENGTH,
\* pushing the decoding of b[offset..offset + ADDRESS_LENGTH].
RECURSIVE DecodeAddressesFrom(_, _, _)
DecodeAddressesFrom(b, i, v) ==
    IF i >= Len(b) \div ADDRESS_LENGTH THEN Ok(v)
    ELSE LET offset == i * ADDRESS_LENGTH
             a == DecodeAddress(SubSeq(b, offset + 1, offset + ADDRESS_LENGTH))
         IN  IF a.tag = "Err" THEN a
             ELSE DecodeAddressesFrom(b, i + 1, Append(v, a.val))

DecodeAddresses(b) ==
    IF ~DivisibleLength(Len(b))
    THEN Err("Slice len should be divisible by 20")
    ELSE DecodeAddressesFrom(b, 0, <<>>)

\* The address lists and the buffers the codec is applied to.
AddressLists == UNION {[1..n -> AddressValues] : n \in 0..MaxAddrs}
AddressBuffers == {Bytes(n, seed) : n \in 0..MaxBufLen, seed \in {0, 1, 100}}

\* A codec call: a pure function of its argument, no store read.
Pure(r) == [res |-> r, reads |-> <<>>]

InitCodec ==
    /\ db = EmptyStore
    /\ Idle

EncodeAddressList(list) ==
    Completes([name |-> "encode_addresses", list |-> list], Pure(Ok(EncodeAddresses(list))))

DecodeAddressList(b) ==
    Completes([name |-> "decode_addresses", buf |-> b], Pure(DecodeAddresses(b)))

NextAddressCodec ==
    \/ \E list \in AddressLists : EncodeAddressList(list)
    \/ \E b \in AddressBuffers : DecodeAddressList(b)
    \/ Return

SpecAddressCodec == InitCodec /\ [][NextAddressCodec]_vars

\* C12: the encoding of n addresses is the 20*n-byte flat concatenation in
\* list order (empty for the empty list) and decodes back to the list; a
\* buffer whose length is not a multiple of 20 fails to decode, and one of
\* length 20*n decodes to exactly n addresses, the n-th its n-th 20 bytes.
C12_AddressListCodec ==
    /\ op.name = "encode_addresses" =>
          /\ Len(res.val) = 20 * Len(op.list)
          /\ \A j \in 1..Len(res.val) :
                res.val[j] = op.list[((j - 1) \div 20) + 1][((j - 1) % 20) + 1]
          /\ DecodeAddresses(res.val) = Ok(op.list)
    /\ op.name = "decode_addresses" =>
          IF Len(op.buf) % 20 # 0 THEN res.tag = "Err"
          ELSE /\ res.tag = "Ok"
               /\ Len(res.val) = Len(op.buf) \div 20
               /\ \A n \in 1..Len(res.val) :
                     res.val[n] = SubSeq(op.buf, 20 * (n - 1) + 1, 20 * n)

\* C12's case: a list of two different addresses is encoded to 40 bytes
\* that decode back to it.
C12_Witness ==
    /\ op.name = "encode_addresses"
    /\ Len(op.list) = 2
    /\ op.list[1] # op.list[2]
    /\ Len(res.val) = 40
    /\ DecodeAddresses(res.val) = Ok(op.list)

\* ------------------------------------------------------ the composite keys
\* size_of::<u64>(), H256::len_bytes().
U64_LENGTH == 8
KECCAK_LENGTH == 32

\* The integer with its bytes in the opposite order, least significant first.
RECURSIVE LittleEndian(_, _)
LittleEndian(n, w) ==
    IF w = 0 THEN <<>> ELSE <<n % 256>> \o LittleEndian(n \div 256, w - 1)

\* The w-byte big-endian encoding of n.
RECURSIVE BigEndian(_, _)
BigEndian(n, w) ==
    IF w = 0 THEN <<>> ELSE Append(BigEndian(n \div 256, w - 1), n % 256)

\* The 64-bit values, addresses and hashes the keys are built from.
U64Values == {0, 1, 255, 256}
HashValues == {Bytes(KECCAK_LENGTH, seed) : seed \in {0, 1, 100}}

\* The tuple_key! declarations: each key's components in declared order,
\* StorageCSKey with its StorageKey's two.
KeyTypes ==
    [HeaderKey |-> <<"u64", "h256">>,
     AccountHistKey |-> <<"address", "u64">>,
     StorageKey |-> <<"address", "u64">>,
     StorageCSKey |-> <<"u64", "address", "u64">>,
     StorageHistKey |-> <<"address", "h256", "u64">>,
     PlainCodeKey |-> <<"address", "u64">>]

\* The values of a component.
ComponentValues(kind) ==
    CASE kind = "u64" -> U64Values
      [] kind = "address" -> AddressValues
      [] kind = "h256" -> HashValues

\* The keys whose components are those of kinds from the i-th on.
RECURSIVE KeysFrom(_, _)
KeysFrom(kinds, i) ==
    IF i > Len(kinds) THEN {<<>>}
    ELSE {<<v>> \o rest : v \in ComponentValues(kinds[i]), rest \in KeysFrom(kinds, i + 1)}

\* The keys of a type.
KeysOf(type) == KeysFrom(KeyTypes[type], 1)

\* A component's fixed-width encoding: integers big-endian in 8 bytes,
\* addresses and hashes their own bytes.
EncodeComponent(kind, v) == IF kind = "u64" THEN BigEndian(v, U64_LENGTH) ELSE v

\* A key's encoding: its components' encodings concatenated in declared
\* order.
RECURSIVE EncodeKeyFrom(_, _, _)
EncodeKeyFrom(kinds, key, i) ==
    IF i > Len(kinds) THEN <<>>
    ELSE EncodeComponent(kinds[i], key[i]) \o EncodeKeyFrom(kinds, key, i + 1)

EncodeKey(type, key) == EncodeKeyFrom(KeyTypes[type], key, 1)

EncodeKeys(type, a, b) ==
    Completes([name |-> "encode_keys", type |-> type, a |-> a, b |-> b],
              Pure(Ok(<<EncodeKey(type, a), EncodeKey(type, b)>>)))

NextKeys ==
    \/ \E type \in DOMAIN KeyTypes : \E a, b \in KeysOf(type) : EncodeKeys(type, a, b)
    \/ Return

SpecKeys == InitCodec /\ [][NextKeys]_vars

\* The byte-lexicographic order of two byte strings, strictly.
BytesLess(x, y) == x # y /\ LexLE(x, y)

\* The order of two component values: integers by value, addresses and
\* hashes by their bytes.
ComponentLess(kind, x, y) == IF kind = "u64" THEN x < y ELSE BytesLess(x, y)

\* The tuple order of two keys of one type: that of the first component
\* they differ in.
TupleLess(kinds, a, b) ==
    \E i \in 1..Len(kinds) :
        /\ \A j \in 1..(i - 1) : a[j] = b[j]
        /\ ComponentLess(kinds[i], a[i], b[i])

\* C14: two composite keys of one type compare in the byte-lexicographic
\* order of their encodings as they do in the tuple order of their
\* components; a key's encoding is as long as its components' widths, the
\* integers taking 8 bytes.
C14_KeyOrder ==
    op.name = "encode_keys" =>
        /\ BytesLess(res.val[1], res.val[2]) <=> TupleLess(KeyTypes[op.type], op.a, op.b)
        /\ res.val[1] = res.val[2] <=> op.a = op.b
        /\ Len(res.val[1]) = Len(res.val[2])

\* C14's case: two keys that differ in an integer component whose low byte
\* orders them the other way (255 and 256).
C14_Witness ==
    /\ op.name = "encode_keys"
    /\ op.type = "StorageHistKey"
    /\ op.a[1] = op.b[1] /\ op.a[2] = op.b[2]
    /\ op.a[3] = 255 /\ op.b[3] = 256
    /\ BytesLess(res.val[1], res.val[2])

\* ------------------------------------------------------ the account codec
\* Account::default(): every field zero.
DefaultAccount ==
    [nonce |-> 0, incarnation |-> 0, balance |-> 0,
     codehash |-> [i \in 1..KECCAK_LENGTH |-> 0]]

\* The integer a big-endian byte string stands for.
RECURSIVE FromBigEndian(_)
FromBigEndian(b) ==
    IF b = <<>> THEN 0
    ELSE FromBigEndian(SubSeq(b, 1, Len(b) - 1)) * 256 + b[Len(b)]

\* What a step of a decoder leaves: a value and the bytes not yet consumed.
Parsed(v, rest) == Ok([val |-> v, rest |-> rest])

\* Buf::get_u8: the next byte; it panics when no byte remains.
get_u8(enc) == IF enc = <<>> THEN Panic ELSE Parsed(Head(enc), Tail(enc))

\* enc[..n] followed by enc.advance(n): the slicing panics past the end.
Take(enc, n) ==
    IF n > Len(enc) THEN Panic
    ELSE Parsed(SubSeq(enc, 1, n), SubSeq(enc, n + 1, Len(enc)))

\* parse_u64_with_len: a length byte, then that many big-endian bytes.  It
\* returns a u64, not a Result: it has no error to return.
parse_u64_with_len(enc) ==
    LET len == get_u8(enc)
    IN  IF len.tag # "Ok" THEN len
        ELSE LET b == Take(len.val.rest, len.val.val)
             IN  IF b.tag # "Ok" THEN b
                 ELSE Parsed(FromBigEndian(b.val.val), b.val.rest)

\* The balance read as the nonce is: length byte and big-endian bytes, but
\* under the incarnation's bit.
HasBalanceAtBit2(fieldset) == (fieldset \div 4) % 2 = 1

\* fieldset & 1, & 2, & 4, & 8.
HasNonce(fieldset) == fieldset % 2 = 1
HasBalance(fieldset) == (fieldset \div 2) % 2 = 1
HasIncarnation(fieldset) == (fieldset \div 4) % 2 = 1
HasCodehash(fieldset) == (fieldset \div 8) % 2 = 1

\* "has nonce".
DecodeNonce(st) ==
    IF ~HasNonce(st.fieldset) THEN Ok(st)
    ELSE LET p == parse_u64_with_len(st.enc)
         IN  IF p.tag # "Ok" THEN p
             ELSE Ok([st EXCEPT !.enc = p.val.rest, !.acct.nonce = p.val.val])

\* "has balance": bal_len = get_u8, enc[..bal_len] into a U256 (which
\* panics on more than 32 bytes), advance.
DecodeBalance(st) ==
    IF ~HasBalance(st.fieldset) THEN Ok(st)
    ELSE LET bal_len == get_u8(st.enc)
         IN  IF bal_len.tag # "Ok" THEN bal_len
             ELSE LET b == Take(bal_len.val.rest, bal_len.val.val)
                  IN  IF b.tag # "Ok" THEN b
                      ELSE IF Len(b.val.val) > 32 THEN Panic
                      ELSE Ok([st EXCEPT !.enc = b.val.rest,
                                         !.acct.balance = FromBigEndian(b.val.val)])

\* "has incarnation".
DecodeIncarnation(st) ==
    IF ~HasIncarnation(st.fieldset) THEN Ok(st)
    ELSE LET p == parse_u64_with_len(st.enc)
         IN  IF p.tag # "Ok" THEN p
             ELSE Ok([st EXCEPT !.enc = p.val.rest, !.acct.incarnation = p.val.val])

\* "has codehash": a length byte that must be KECCAK_LENGTH, then
\* enc[..KECCAK_LENGTH].
DecodeCodehash(st) ==
    IF ~HasCodehash(st.fieldset) THEN Ok(st)
    ELSE LET len == get_u8(st.enc)
         IN  IF len.tag # "Ok" THEN len
             ELSE IF len.val.val # KECCAK_LENGTH
             THEN Err("codehash should be 32 bytes long")
             ELSE LET h == Take(len.val.rest, KECCAK_LENGTH)
                  IN  IF h.tag # "Ok" THEN h
                      ELSE Ok([st EXCEPT !.enc = h.val.rest, !.acct.codehash = h.val.val])

\* <Account as TableDecode>::decode.
AccountDecode(enc) ==
    IF enc = <<>> THEN Ok(DefaultAccount)
    ELSE LET st == [fieldset |-> Head(enc), enc |-> Tail(enc), acct |-> DefaultAccount]
             n == DecodeNonce(st)
             b == IF n.tag # "Ok" THEN n ELSE DecodeBalance(n.val)
             i == IF b.tag # "Ok" THEN b ELSE DecodeIncarnation(b.val)
             r == IF i.tag # "Ok" THEN i ELSE DecodeCodehash(i.val)
         IN  IF r.tag = "Ok" THEN Ok(r.val.acct) ELSE r

\* The shortest big-endian bytes of n (none for 0), and a byte string
\* behind its length byte.
RECURSIVE MinimalBytes(_)
MinimalBytes(n) == IF n = 0 THEN <<>> ELSE Append(MinimalBytes(n \div 256), n % 256)
WithLen(b) == <<Len(b)>> \o b

\* The stored bytes of acct's fields selected by fieldset: the fieldset
\* byte, then nonce, balance, incarnation and codehash in this order, each
\* behind its length byte, the codehash's being chlen.
StoredAccount(fieldset, acct, chlen) ==
    <<fieldset>>
    \o (IF HasNonce(fieldset) THEN WithLen(MinimalBytes(acct.nonce)) ELSE <<>>)
    \o (IF HasBalance(fieldset) THEN WithLen(MinimalBytes(acct.balance)) ELSE <<>>)
    \o (IF HasIncarnation(fieldset) THEN WithLen(MinimalBytes(acct.incarnation)) ELSE <<>>)
    \o (IF HasCodehash(fieldset) THEN <<chlen>> \o acct.codehash ELSE <<>>)

\* The fieldsets and the accounts whose stored bytes are decoded.
Fieldsets == 0..15
StoredAccounts ==
    [nonce : {1, 300}, incarnation : {2}, balance : {5, 256},
     codehash : {Bytes(KECCAK_LENGTH, 100)}]
\* Codehash length bytes other than KECCAK_LENGTH.
OtherLengths == {0, 31, 33}

\* decode of the first cut bytes of an account's stored bytes: all of
\* them, or a buffer that ends early.
DecodeAccount(fieldset, acct, cut) ==
    Completes([name |-> "decode_account", fieldset |-> fieldset, acct |-> acct,
               chlen |-> KECCAK_LENGTH, cut |-> cut,
               buf |-> SubSeq(StoredAccount(fieldset, acct, KECCAK_LENGTH), 1, cut)],
              Pure(AccountDecode(SubSeq(StoredAccount(fieldset, acct, KECCAK_LENGTH), 1, cut))))

\* decode of stored bytes whose codehash length byte is not KECCAK_LENGTH.
DecodeAccountOtherLength(fieldset, acct, chlen) ==
    /\ HasCodehash(fieldset)
    /\ Completes([name |-> "decode_account", fieldset |-> fieldset, acct |-> acct,
                  chlen |-> chlen, cut |-> Len(StoredAccount(fieldset, acct, chlen)),
                  buf |-> StoredAccount(fieldset, acct, chlen)],
                 Pure(AccountDecode(StoredAccount(fieldset, acct, chlen))))

NextAccountCodec ==
    \/ \E fieldset \in Fieldsets, acct \in StoredAccounts :
          \E cut \in 0..Len(StoredAccount(fieldset, acct, KECCAK_LENGTH)) :
             DecodeAccount(fieldset, acct, cut)
    \/ \E fieldset \in Fieldsets, acct \in StoredAccounts, chlen \in OtherLengths :
          DecodeAccountOtherLength(fieldset, acct, chlen)
    \/ Return

SpecAccountCodec == InitCodec /\ [][NextAccountCodec]_vars

\* C15: decoding a buffer whose fieldset byte has bits set but that ends
\* before the selected fields do (no length byte, or fewer bytes than a
\* declared length) fails with a decode error returned to the caller: no
\* abort, no defaulted or truncated account; and a codehash length byte
\* other than 32 fails with an error.
C15_ShortBufferIsError ==
    op.name = "decode_account" =>
        /\ (1 <= op.cut /\ op.cut < Len(StoredAccount(op.fieldset, op.acct, op.chlen))) =>
              res.tag = "Err"
        /\ (HasCodehash(op.fieldset) /\ op.chlen # 32 /\ op.cut = Len(op.buf)) =>
              res.tag = "Err"

\* The account with acct's fields where fieldset selects them and the zero
\* default elsewhere.
Selected(fieldset, acct) ==
    [nonce |-> IF fieldset % 2 = 1 THEN acct.nonce ELSE 0,
     balance |-> IF (fieldset \div 2) % 2 = 1 THEN acct.balance ELSE 0,
     incarnation |-> IF (fieldset \div 4) % 2 = 1 THEN acct.incarnation ELSE 0,
     codehash |-> IF (fieldset \div 8) % 2 = 1 THEN acct.codehash
                  ELSE [i \in 1..32 |-> 0]]

\* C16: an empty input decodes to the zero account; otherwise the first
\* byte is a fieldset, bit0 nonce, bit1 balance, bit2 incarnation, bit3
\* codehash, the selected fields are read in the order nonce, balance,
\* incarnation, codehash, and a field whose bit is clear stays zero.
C16_FieldsetSelectsFields ==
    op.name = "decode_account" =>
        /\ op.buf = <<>> => res = Ok(Selected(0, op.acct))
        /\ (op.chlen = 32 /\ op.cut = Len(StoredAccount(op.fieldset, op.acct, 32))) =>
              res = Ok(Selected(op.fieldset, op.acct))

\* C16's case: all four fields are stored and decoded.
C16_Witness ==
    /\ op.name = "decode_account"
    /\ op.fieldset = 15
    /\ op.cut = Len(op.buf) /\ op.chlen = 32
    /\ res.tag = "Ok"
    /\ res.val.nonce = 300 /\ res.val.balance = 256 /\ res.val.incarnation = 2
    /\ res.val.codehash = op.acct.codehash

\* --------------------------------------------------- the block header codec
BLOOM_BYTE_LENGTH == 256

\* fastrlp::Header::encode: one byte for a payload shorter than 56 bytes,
\* else the length of the length and the length, big-endian.
RlpHeaderEncode(list, payload_length) ==
    IF payload_length < 56
    THEN <<(IF list THEN 192 ELSE 128) + payload_length>>
    ELSE LET len_be == MinimalBytes(payload_length)
         IN  <<(IF list THEN 247 ELSE 183) + Len(len_be)>> \o len_be

\* fastrlp::length_of_length.
length_of_length(payload_length) ==
    IF payload_length < 56 THEN 1 ELSE 1 + Len(MinimalBytes(payload_length))

\* Encodable for u64 and U256: 0 is the empty string, a value below 0x80
\* its own byte, any other its shortest big-endian bytes behind a header.
IntEncode(n) ==
    IF n = 0 THEN <<128>>
    ELSE IF n < 128 THEN <<n>>
    ELSE <<128 + Len(MinimalBytes(n))>> \o MinimalBytes(n)

IntLength(n) == IF n < 128 THEN 1 ELSE 1 + Len(MinimalBytes(n))

\* Encodable for byte strings (Bytes, and the fixed-size hashes, address,
\* bloom and nonce): a single byte below 0x80 is itself, anything else
\* goes behind a header.
BytesEncode(b) ==
    IF Len(b) # 1 \/ b[1] >= 128 THEN RlpHeaderEncode(FALSE, Len(b)) \o b ELSE b

BytesLength(b) ==
    IF Len(b) # 1 \/ b[1] >= 128 THEN length_of_length(Len(b)) + Len(b) ELSE Len(b)

\* The fields encode writes and decode reads after the list header, in
\* their order, up to the nonce: the fixed-size ones with their width.
HeaderFields ==
    <<[name |-> "parent_hash", kind |-> "fixed", width |-> KECCAK_LENGTH],
      [name |-> "uncle_hash", kind |-> "fixed", width |-> KECCAK_LENGTH],
      [name |-> "coinbase", kind |-> "fixed", width |-> ADDRESS_LENGTH],
      [name |-> "root", kind |-> "fixed", width |-> KECCAK_LENGTH],
      [name |-> "tx_hash", kind |-> "fixed", width |-> KECCAK_LENGTH],
      [name |-> "receipts_hash", kind |-> "fixed", width |-> KECCAK_LENGTH],
      [name |-> "bloom", kind |-> "fixed", width |-> BLOOM_BYTE_LENGTH],
      [name |-> "difficulty", kind |-> "int", width |-> 32],
      [name |-> "number", kind |-> "int", width |-> 32],
      [name |-> "gas_limit", kind |-> "int", width |-> 8],
      [name |-> "gas_used", kind |-> "int", width |-> 8],
      [name |-> "time", kind |-> "int", width |-> 8],
      [name |-> "extra", kind |-> "bytes", width |-> 0],
      [name |-> "mix_digest", kind |-> "fixed", width |-> KECCAK_LENGTH],
      [name |-> "nonce", kind |-> "fixed", width |-> 8]>>

\* BlockHeader::rlp_header: the list header, its payload length summed
\* field by field.
rlp_header(x) ==
    [list |-> TRUE,
     payload_length |->
        (KECCAK_LENGTH + 1) + (KECCAK_LENGTH + 1) + (ADDRESS_LENGTH + 1)
        + (KECCAK_LENGTH + 1) + (KECCAK_LENGTH + 1) + (KECCAK_LENGTH + 1)
        + (BLOOM_BYTE_LENGTH + length_of_length(BLOOM_BYTE_LENGTH))
        + IntLength(x.difficulty) + IntLength(x.number) + IntLength(x.gas_limit)
        + IntLength(x.gas_used) + IntLength(x.time) + BytesLength(x.extra)
        + (KECCAK_LENGTH + 1) + (8 + 1)
        + (IF x.base_fee.tag = "Some" THEN IntLength(x.base_fee.val) ELSE 0)]

\* Encodable::encode of one field.
FieldEncode(f, v) == IF f.kind = "int" THEN IntEncode(v) ELSE BytesEncode(v)

\* The encodings of the fields from the i-th on, one after the other.
RECURSIVE FieldsEncodeFrom(_, _)
FieldsEncodeFrom(x, i) ==
    IF i > Len(HeaderFields) THEN <<>>
    ELSE FieldEncode(HeaderFields[i], x[HeaderFields[i].name]) \o FieldsEncodeFrom(x, i + 1)

\* <BlockHeader as Encodable>::encode: the list header, the fields, and
\* the base fee if there is one.  The seal is not written.
BlockHeaderEncode(x) ==
    RlpHeaderEncode(TRUE, rlp_header(x).payload_length)
    \o FieldsEncodeFrom(x, 1)
    \o (IF x.base_fee.tag = "Some" THEN IntEncode(x.base_fee.val) ELSE <<>>)

\* The length a long header declares in len_of_len bytes: no leading zero,
\* and not a length the short form holds.
LongHeader(list, rest, len_of_len) ==
    IF Len(rest) < len_of_len THEN Err("InputTooShort")
    ELSE IF rest[1] = 0 THEN Err("LeadingZero")
    ELSE LET payload_length == FromBigEndian(SubSeq(rest, 1, len_of_len))
         IN  IF payload_length < 56 THEN Err("NonCanonicalSize")
             ELSE Parsed([list |-> list, payload_length |-> payload_length],
                         SubSeq(rest, len_of_len + 1, Len(rest)))

\* fastrlp::Header::decode before its last test: a byte below 0x80 is its
\* own one-byte payload and is not consumed.
HeaderOf(buf) ==
    IF buf = <<>> THEN Err("InputTooShort")
    ELSE LET b == buf[1]
             rest == Tail(buf)
         IN  IF b < 128 THEN Parsed([list |-> FALSE, payload_length |-> 1], buf)
             ELSE IF b < 184
             THEN IF b - 128 = 1 /\ rest = <<>> THEN Err("InputTooShort")
                  ELSE IF b - 128 = 1 /\ rest[1] < 128 THEN Err("NonCanonicalSingleByte")
                  ELSE Parsed([list |-> FALSE, payload_length |-> b - 128], rest)
             ELSE IF b < 192 THEN LongHeader(FALSE, rest, b - 183)
             ELSE IF b < 248 THEN Parsed([list |-> TRUE, payload_length |-> b - 192], rest)
             ELSE LongHeader(TRUE, rest, b - 247)

\* The last test of Header::decode on the header h read: the payload must
\* be there.
PayloadPresent(h) ==
    IF h.tag # "Ok" THEN h
    ELSE IF Len(h.val.rest) < h.val.val.payload_length THEN Err("InputTooShort")
    ELSE h

\* fastrlp::Header::decode.
RlpHeaderDecode(buf) == PayloadPresent(HeaderOf(buf))

\* The payload behind the header h of a fixed-size byte string.
FixedPayload(h, width) ==
    IF h.tag # "Ok" THEN h
    ELSE IF h.val.val.list THEN Err("UnexpectedList")
    ELSE IF h.val.val.payload_length # width THEN Err("UnexpectedLength")
    ELSE Take(h.val.rest, width)

\* Decodable for a fixed-size byte string of the given width.
FixedDecode(buf, width) == FixedPayload(RlpHeaderDecode(buf), width)

\* The integer of the payload bytes b: no leading zero.
IntValue(b) ==
    IF b.val.val # <<>> /\ b.val.val[1] = 0 THEN Err("LeadingZero")
    ELSE Parsed(FromBigEndian(b.val.val), b.val.rest)

\* The payload behind the header h of an integer of the given width.
IntPayload(h, width) ==
    IF h.tag # "Ok" THEN h
    ELSE IF h.val.val.list THEN Err("UnexpectedList")
    ELSE IF h.val.val.payload_length > width THEN Err("Overflow")
    ELSE IntValue(Take(h.val.rest, h.val.val.payload_length))

\* Decodable for an integer of the given width in bytes.
IntDecode(buf, width) == IntPayload(RlpHeaderDecode(buf), width)

\* The payload behind the header h of a byte string.
BytesPayload(h) ==
    IF h.tag # "Ok" THEN h
    ELSE IF h.val.val.list THEN Err("UnexpectedList")
    ELSE Take(h.val.rest, h.val.val.payload_length)

\* Decodable for Bytes.
BytesDecode(buf) == BytesPayload(RlpHeaderDecode(buf))

\* Decodable::decode of one field.
FieldDecode(f, buf) ==
    CASE f.kind = "fixed" -> FixedDecode(buf, f.width)
      [] f.kind = "int" -> IntDecode(buf, f.width)
      [] f.kind = "bytes" -> BytesDecode(buf)

\* The fields from the i-th on decoded into x, one after the other; the
\* first error ends the decoding ("?").
RECURSIVE FieldsDecodeFrom(_, _, _)
\* What follows the decoding v of the i-th field.
FieldDecoded(v, i, x) ==
    IF v.tag # "Ok" THEN v
    ELSE FieldsDecodeFrom(v.val.rest, i + 1, [x EXCEPT ![HeaderFields[i].name] = v.val.val])

FieldsDecodeFrom(buf, i, x) ==
    IF i > Len(HeaderFields) THEN Parsed(x, buf)
    ELSE FieldDecoded(FieldDecode(HeaderFields[i], buf), i, x)

\* BlockHeader::default().
DefaultHeader ==
    [parent_hash |-> <<>>, uncle_hash |-> <<>>, coinbase |-> <<>>, root |-> <<>>,
     tx_hash |-> <<>>, receipts_hash |-> <<>>, bloom |-> <<>>, difficulty |-> 0,
     number |-> 0, gas_limit |-> 0, gas_used |-> 0, time |-> 0, extra |-> <<>>,
     mix_digest |-> <<>>, nonce |-> <<>>, base_fee |-> None, seal |-> None]

\* The header x with the base fee decoded as f.
BaseFeeDecoded(f, x) ==
    IF f.tag # "Ok" THEN f ELSE Ok([x EXCEPT !.base_fee = Some(f.val.val)])

\* The end of decode: one more field, the base fee, if bytes remain beyond
\* the declared payload; the seal is None.
WithBaseFee(x, buf, rest) ==
    IF Len(buf) > rest THEN BaseFeeDecoded(IntDecode(buf, 32), x) ELSE Ok(x)

\* decode after the mandatory fields, decoded as fields.
AfterFields(fields, rest) ==
    IF fields.tag # "Ok" THEN fields
    ELSE WithBaseFee(fields.val.val, fields.val.rest, rest)

\* decode after the list header rlp_head: rest is the number of bytes
\* beyond the declared payload.
AfterListHeader(rlp_head) ==
    IF rlp_head.tag # "Ok" THEN rlp_head
    ELSE IF ~rlp_head.val.val.list THEN Err("UnexpectedString")
    ELSE AfterFields(FieldsDecodeFrom(rlp_head.val.rest, 1, DefaultHeader),
                     Len(rlp_head.val.rest) - rlp_head.val.val.payload_length)

\* <BlockHeader as Decodable>::decode.
BlockHeaderDecode(buf) == AfterListHeader(RlpHeaderDecode(buf))

\* The headers the codec is applied to: every kind of integer and byte
\* string encoding, the base fee and the seal present or absent.
BlockHeaders ==
    [parent_hash : {Bytes(KECCAK_LENGTH, 1)}, uncle_hash : {Bytes(KECCAK_LENGTH, 2)},
     coinbase : {Bytes(ADDRESS_LENGTH, 3)}, root : {Bytes(KECCAK_LENGTH, 4)},
     tx_hash : {Bytes(KECCAK_LENGTH, 5)}, receipts_hash : {Bytes(KECCAK_LENGTH, 6)},
     bloom : {Bytes(BLOOM_BYTE_LENGTH, 7)}, difficulty : {0, 300}, number : {1, 128},
     gas_limit : {127, 70000}, gas_used : {0}, time : {1000},
     extra : {<<>>, <<5>>, <<200>>, Bytes(60, 0)},
     mix_digest : {Bytes(KECCAK_LENGTH, 8)}, nonce : {Bytes(8, 9)},
     base_fee : {None, Some(0), Some(7), Some(300)}, seal : {None, Some(<<1, 2>>)}]

\* encode of a header.
EncodeHeader(x) ==
    Completes([name |-> "encode_header", header |-> x], Pure(Ok(BlockHeaderEncode(x))))

\* decode of the encoding of a header.
DecodeHeader(x) ==
    Completes([name |-> "decode_header", header |-> x, buf |-> BlockHeaderEncode(x)],
              Pure(BlockHeaderDecode(BlockHeaderEncode(x))))

NextHeaderCodec ==
    \/ \E x \in BlockHeaders : EncodeHeader(x)
    \/ \E x \in BlockHeaders : DecodeHeader(x)
    \/ Return

SpecHeaderCodec == InitCodec /\ [][NextHeaderCodec]_vars

\* C13: for every BlockHeader x, with or without a base fee,
\* decode(encode(x)) = x, and the list length prefix encode writes is the
\* total encoded length of the fields that follow it.
C13_HeaderRoundTrip ==
    /\ op.name = "decode_header" => res = Ok(op.header)
    /\ op.name = "encode_header" =>
          LET h == RlpHeaderDecode(res.val)
          IN  /\ h.tag = "Ok"
              /\ h.val.val.list
              /\ h.val.val.payload_length = Len(h.val.rest)

\* ------------------------------------- writes and reads in one transaction
\* The helper pairs write_<h> / read_<h>.
Helpers ==
    {"head_header_hash", "head_block_hash", "incarnation",
     "transaction_block_number", "header_number", "header"}

\* The table write_<h> puts into.
WriteTable(h) ==
    CASE h = "head_header_hash" -> "LastHeader"
      [] h = "head_block_hash" -> "LastBlock"
      [] h = "incarnation" -> "IncarnationMap"
      [] h = "transaction_block_number" -> "BlockTransactionLookup"
      [] h = "header_number" -> "HeaderNumber"
      [] h = "header" -> "Header"

\* The table read_<h> gets from.
ReadTable(h) ==
    CASE h = "head_header_hash" -> "LastHeader"
      [] h = "head_block_hash" -> "LastBlock"
      [] h = "incarnation" -> "IncarnationMap"
      [] h = "transaction_block_number" -> "BlockTransactionLookup"
      [] h = "header_number" -> "HeaderNumber"
      [] h = "header" -> "Header"

\* The keys a helper is called with: the one key of the head tables, two
\* addresses, one hash, one (number, hash).
HelperKeys(h) ==
    CASE h = "head_header_hash" -> {<<"LastHeader">>}
      [] h = "head_block_hash" -> {<<"LastBlock">>}
      [] h = "header" -> {<<1, 1>>}
      [] h = "incarnation" -> {<<1>>, <<2>>}
      [] OTHER -> {<<1>>}

\* The headers written: with a base fee, the seal present or absent.
WrittenHeaders ==
    [parent_hash : {Bytes(KECCAK_LENGTH, 1)}, uncle_hash : {Bytes(KECCAK_LENGTH, 2)},
     coinbase : {Bytes(ADDRESS_LENGTH, 3)}, root : {Bytes(KECCAK_LENGTH, 4)},
     tx_hash : {Bytes(KECCAK_LENGTH, 5)}, receipts_hash : {Bytes(KECCAK_LENGTH, 6)},
     bloom : {Bytes(BLOOM_BYTE_LENGTH, 7)}, difficulty : {0}, number : {1},
     gas_limit : {127}, gas_used : {0}, time : {1000}, extra : {<<5>>},
     mix_digest : {Bytes(KECCAK_LENGTH, 8)}, nonce : {Bytes(8, 9)},
     base_fee : {Some(7)}, seal : {None, Some(<<1, 2>>)}]

\* The values a write helper is called with.
HelperValues(h) ==
    CASE h = "head_header_hash" -> {Bytes(KECCAK_LENGTH, 1), Bytes(KECCAK_LENGTH, 2)}
      [] h = "head_block_hash" -> {Bytes(KECCAK_LENGTH, 1), Bytes(KECCAK_LENGTH, 2)}
      [] h = "incarnation" -> {1, 256}
      [] h = "transaction_block_number" -> {1, 300}
      [] h = "header_number" -> {1, 256}
      [] h = "header" -> WrittenHeaders

\* The width of a table's fixed-width value (0: the header's own codec).
ValueWidth(table) ==
    CASE table \in {"LastHeader", "LastBlock"} -> KECCAK_LENGTH
      [] table \in {"IncarnationMap", "HeaderNumber"} -> U64_LENGTH
      [] table = "BlockTransactionLookup" -> 32
      [] table = "Header" -> 0

\* TableEncode of a table's value: a hash its bytes, an integer fixed-width
\* big-endian, a header by rlp_table_value!.
TableEncode(table, v) ==
    CASE table \in {"LastHeader", "LastBlock"} -> v
      [] table = "Header" -> BlockHeaderEncode(v)
      [] OTHER -> BigEndian(v, ValueWidth(table))

\* TableDecode of a table's stored bytes.
TableDecode(table, b) ==
    IF table = "Header" THEN BlockHeaderDecode(b)
    ELSE IF Len(b) # ValueWidth(table) THEN Err("InvalidLength")
    ELSE IF table \in {"LastHeader", "LastBlock"} THEN Ok(b)
    ELSE Ok(FromBigEndian(b))

\* The Option a read returns for the decoding v of the stored bytes.
Decoded(v) == IF v.tag = "Ok" THEN Some(v.val) ELSE v

\* Erigon::read: get under the key and decode what is there.
Read(view, table, key) ==
    IF key \notin DOMAIN view[table] THEN None
    ELSE Decoded(TableDecode(table, view[table][key]))

\* A read-write transaction: its view of the store and, per helper, the
\* value it last wrote under each key.
RwTx(store, written) == [open |-> TRUE, snap |-> store, written |-> written]
NothingWritten == [h \in Helpers |-> EmptyTable]

\* The store with one entry under each helper's first key.
StoreWith(vals) ==
    [EmptyStore EXCEPT
        !.LastHeader = (<<"LastHeader">> :> TableEncode("LastHeader", Bytes(KECCAK_LENGTH, 3))),
        !.IncarnationMap = (<<1>> :> TableEncode("IncarnationMap", vals)),
        !.HeaderNumber = (<<1>> :> TableEncode("HeaderNumber", vals))]

InitRw ==
    /\ db \in {EmptyStore, StoreWith(1), StoreWith(256)}
    /\ Idle

\* Erigon::begin_rw, the transaction having written nothing yet.
BeginRwTx ==
    /\ pc = "idle"
    /\ ~wtx.open
    /\ nwrites < MaxWrites
    /\ wtx' = RwTx(db, NothingWritten)
    /\ UNCHANGED <<db, op, res, reads, pc, loc, tx, nwrites, raced>>

\* write_<h>(key, val): Erigon::write into the helper's table.
WriteHelper(h, key, val) ==
    /\ pc = "idle"
    /\ wtx.open
    /\ nwrites < MaxWrites
    /\ wtx' = RwTx(Put(wtx.snap, [table |-> WriteTable(h), dup |-> FALSE, key |-> key,
                                  val |-> TableEncode(WriteTable(h), val)]),
                   [wtx.written EXCEPT ![h] = PutKey(wtx.written[h], key, val)])
    /\ nwrites' = nwrites + 1
    /\ UNCHANGED <<db, op, res, reads, pc, loc, tx, raced>>

\* read_<h>(key): Erigon::read from the helper's table, in the transaction.
ReadHelper(h, key) ==
    /\ wtx.open
    /\ Completes([name |-> "read", helper |-> h, key |-> key],
                 [res |-> Read(wtx.snap, ReadTable(h), key),
                  reads |-> <<Lookup(ReadTable(h), key)>>])

\* The transaction commits.
CommitRwTx ==
    /\ pc = "idle"
    /\ wtx.open
    /\ db' = wtx.snap
    /\ wtx' = NoTx
    /\ UNCHANGED <<op, res, reads, pc, loc, tx, nwrites, raced>>

NextRw ==
    \/ BeginRwTx
    \/ \E h \in Helpers : \E key \in HelperKeys(h), val \in HelperValues(h) :
          WriteHelper(h, key, val)
    \/ \E h \in Helpers : \E key \in HelperKeys(h) : ReadHelper(h, key)
    \/ CommitRwTx
    \/ Return

SpecRw == InitRw /\ [][NextRw]_vars

\* C11: in a read-write transaction, after any writes, read_<h>(k) returns
\* the value of the latest write_<h> under k; writes under other keys or
\* by other helpers leave it as it was, the value the store held when the
\* transaction began; and a key never written and not in the store reads
\* as an empty result, not an error.
C11_ReadYourWrites ==
    (op.name = "read" /\ wtx.open) =>
        IF op.key \in DOMAIN wtx.written[op.helper]
        THEN res = Some(wtx.written[op.helper][op.key])
        ELSE IF op.key \in DOMAIN db[ReadTable(op.helper)]
        THEN res = Read(db, ReadTable(op.helper), op.key)
        ELSE res = None

====
